---- MODULE Spec2Model ----
(***************************************************************************)
(* Model of the video voter: the JSON file store (apps/videos/videos.py)   *)
(* and the Flask handlers over it (app.py).                                *)
(*                                                                         *)
(* The file db.json is modelled at the granularity of one JSON value: a    *)
(* json.load reads the whole collection and a json.dump replaces it, each  *)
(* in one step.  Every other step of a handler is local to its request.    *)
(* A title is a sequence of one-character strings.  The metrics calls of   *)
(* app.py (counters, latency histogram) touch no state of the store and    *)
(* are left out.                                                           *)
(***************************************************************************)
EXTENDS Integers, Sequences, FiniteSets, TLC

VARIABLES
    db,          \* the collection held by db.json, in file order
    start,       \* history: the collection db.json held at the beginning
    pc,          \* per request: "ready", "scanned" (loaded, not yet written), "done"
    op,          \* per request: the store operation and the id it was called with
    loaded,      \* per request, history: the collection as json.load returned it
    videos,      \* per request: the local list `videos` of like/dislike after the scan
    resp,        \* per request: the (body, status) the endpoint returned
    lastWriter,  \* history: the request whose json.dump wrote db last (0: none)
    view         \* the last answer of a read-only endpoint

vars == <<db, start, pc, op, loaded, videos, resp, lastWriter, view>>

---------------------------------------------------------------------------
(* Bounds and input domains *)

\* the longest collection db.json starts with
MaxVideos == 2

\* the number of like/dislike requests of one run
NumRequests == 2

\* the largest counter value of a collection the read-only endpoints start on
MaxCount == 1

Requests == 1..NumRequests

\* ids of stored records, and an id no record has
Ids == {"v1", "v2"}
MissingId == "zz"
RequestIds == Ids \cup {MissingId}

\* titles of the stored records and filters of the list endpoint
Titles ==
    { <<>>, <<"a">>, <<"A">>, <<"b">>, <<"a", "b">>, <<"A", "b">>, <<"b", "A">>, <<"b", "a">> }
Filters ==
    { <<>>, <<"a">>, <<"A">>, <<"B">>, <<"a", "b">>, <<"A", "B">>, <<"b", "a">>, <<"b", "b">> }
PlainTitle == <<"a">>

SeqsUpTo(S, n) == UNION { [1..m -> S] : m \in 0..n }

\* collections that differ in their titles
TitleDbs ==
    SeqsUpTo([id : Ids, title : Titles, likes : {0}, dislikes : {0}], MaxVideos)

\* collections that differ in their counters
ScoreDbs ==
    SeqsUpTo([id : Ids, title : {PlainTitle}, likes : 0..MaxCount, dislikes : 0..MaxCount],
             MaxVideos)

\* collections some votes have been cast on before the run
StartCounts == {0, 2}
VotedDbs ==
    SeqsUpTo([id : Ids, title : {PlainTitle}, likes : StartCounts, dislikes : StartCounts],
             MaxVideos)

\* collections no vote has been cast on yet
FreshDbs ==
    SeqsUpTo([id : Ids, title : {PlainTitle}, likes : {0}, dislikes : {0}], MaxVideos)

\* the examples of the specification text
CatsDb ==
    << [id |-> "v1", title |-> <<"C", "a", "t", "s">>, likes |-> 0, dislikes |-> 0],
       [id |-> "v2", title |-> <<"a", "c", "t">>, likes |-> 0, dislikes |-> 0] >>
CatFilter == <<"C", "A", "T">>
RankDb ==
    << [id |-> "A", title |-> PlainTitle, likes |-> 5, dislikes |-> 1],
       [id |-> "B", title |-> PlainTitle, likes |-> 3, dislikes |-> 0],
       [id |-> "C", title |-> PlainTitle, likes |-> 5, dislikes |-> 5] >>

NoOp == [kind |-> "none", id |-> MissingId]
NoResp == [body |-> "", status |-> 0]
NoView == [route |-> "none", id |-> MissingId, filter |-> <<>>, raised |-> FALSE,
           ids |-> <<>>, body |-> <<>>]

---------------------------------------------------------------------------
(* apps/videos/videos.py *)

\* str.lower() on one character
lower_char(c) ==
    CASE c = "A" -> "a"
      [] c = "B" -> "b"
      [] c = "C" -> "c"
      [] c = "T" -> "t"
      [] OTHER -> c

\* str.lower()
lower(s) == [i \in 1..Len(s) |-> lower_char(s[i])]

\* Python's `sub in s` on strings
contains(sub, s) ==
    \E i \in 0..(Len(s) - Len(sub)) : SubSeq(s, i + 1, i + Len(sub)) = sub

\* the ids of a list of records, in order
ids_of(vs) == [i \in 1..Len(vs) |-> vs[i].id]

\* list with the filter compared as typed: only the title is lowered
list_filter_as_typed(vs, title_filter) ==
    LET keep(video) == contains(title_filter, lower(video.title))
    IN  ids_of(SelectSeq(vs, keep))

\* list(title_filter) on the loaded collection vs
list(vs, title_filter) ==
    LET keep(video) == contains(lower(title_filter), lower(video.title))
    IN  ids_of(SelectSeq(vs, keep))

RECURSIVE first_match(_, _, _)
\* the for loop of get: the index of the first record from k on whose id is id, 0 if none
first_match(vs, id, k) ==
    IF k > Len(vs) THEN 0
    ELSE IF vs[k].id = id THEN k
    ELSE first_match(vs, id, k + 1)

\* get that answers with the record the loop ended on when no id matched
get_loop_variable(vs, id) ==
    LET k == first_match(vs, id, 1)
    IN  IF Len(vs) = 0 THEN [raised |-> TRUE, body |-> <<>>]
        ELSE IF k = 0 THEN [raised |-> FALSE, body |-> <<vs[Len(vs)]>>]
        ELSE [raised |-> FALSE, body |-> <<vs[k]>>]

\* get(id) on the loaded collection vs: the record found, or ValueError raised
get(vs, id) ==
    LET k == first_match(vs, id, 1)
    IN  IF k = 0 THEN [raised |-> TRUE, body |-> <<>>]
        ELSE [raised |-> FALSE, body |-> <<vs[k]>>]

\* like whose loop raises the other counter
like_scan_other_counter(vs, id) ==
    [k \in 1..Len(vs) |->
        IF vs[k].id = id THEN [vs[k] EXCEPT !.dislikes = @ + 1] ELSE vs[k]]

\* like whose loop does not test the id
like_scan_untested(vs, id) ==
    [k \in 1..Len(vs) |-> [vs[k] EXCEPT !.likes = @ + 1]]

\* like whose increment sticks on the last record with the id only
like_scan_last_only(vs, id) ==
    [k \in 1..Len(vs) |->
        IF vs[k].id = id /\ \A m \in (k + 1)..Len(vs) : vs[m].id # id
        THEN [vs[k] EXCEPT !.likes = @ + 1] ELSE vs[k]]

\* the for loop of like: every record is visited, a record whose id is id gets likes += 1
like_scan(vs, id) ==
    [k \in 1..Len(vs) |->
        IF vs[k].id = id THEN [vs[k] EXCEPT !.likes = @ + 1] ELSE vs[k]]

\* dislike whose loop raises the other counter
dislike_scan_other_counter(vs, id) ==
    [k \in 1..Len(vs) |->
        IF vs[k].id = id THEN [vs[k] EXCEPT !.likes = @ + 1] ELSE vs[k]]

\* the for loop of dislike: every record is visited, a record whose id is id gets dislikes += 1
dislike_scan(vs, id) ==
    [k \in 1..Len(vs) |->
        IF vs[k].id = id THEN [vs[k] EXCEPT !.dislikes = @ + 1] ELSE vs[k]]

---------------------------------------------------------------------------
(* app.py *)

\* the sort key of index: int(video["likes"] - video["dislikes"])
score(video) == video.likes - video.dislikes

\* a descending sort that is not stable: an element goes before those of equal key
insert_before_equal(res, video) ==
    LET n == Cardinality({i \in 1..Len(res) : score(res[i]) > score(video)})
    IN  SubSeq(res, 1, n) \o <<video>> \o SubSeq(res, n + 1, Len(res))

\* one element placed into a list already sorted by sorted(..., reverse=True):
\* behind every element whose key is at least its own
insert_sorted(res, video) ==
    LET n == Cardinality({i \in 1..Len(res) : score(res[i]) >= score(video)})
    IN  SubSeq(res, 1, n) \o <<video>> \o SubSeq(res, n + 1, Len(res))

RECURSIVE sorted_upto(_, _)
\* sorted(vs[1..n], key=score, reverse=True)
sorted_upto(vs, n) ==
    IF n = 0 THEN <<>> ELSE insert_sorted(sorted_upto(vs, n - 1), vs[n])

\* sorted(all_videos, key=..., reverse=True): descending, equal keys keep their order
sorted_videos(vs) == sorted_upto(vs, Len(vs))

\* index: the detail record of every listed id, sorted by score.  list and each
\* get_video_details load the file anew; no writer runs beside the read-only
\* endpoints, so every load of one index call returns the same collection vs.
index(vs) ==
    LET listed == list(vs, <<>>)
        all_videos == [i \in 1..Len(listed) |-> get(vs, listed[i]).body[1]]
    IN  sorted_videos(all_videos)

\* GET /api/v1/video?filter=title_filter
get_videos(title_filter) ==
    /\ view' = [NoView EXCEPT !.route = "list", !.filter = title_filter,
                              !.ids = list(db, title_filter)]
    /\ UNCHANGED <<db, start, pc, op, loaded, videos, resp, lastWriter>>

\* GET /api/v1/video/<id>
get_video_details(id) ==
    /\ view' = [NoView EXCEPT !.route = "get", !.id = id,
                              !.raised = get(db, id).raised, !.body = get(db, id).body]
    /\ UNCHANGED <<db, start, pc, op, loaded, videos, resp, lastWriter>>

\* GET /
index_view ==
    /\ view' = [NoView EXCEPT !.route = "index", !.body = index(db)]
    /\ UNCHANGED <<db, start, pc, op, loaded, videos, resp, lastWriter>>

\* requests are interchangeable: the next one to arrive is the lowest-numbered ready one
arrives(r) ==
    /\ pc[r] = "ready"
    /\ \A q \in Requests : q < r => pc[q] # "ready"

\* GET /api/v1/video/<id>/like, up to the sleep: json.load and the scan
like_load(r, id) ==
    /\ arrives(r)
    /\ op' = [op EXCEPT ![r] = [kind |-> "like", id |-> id]]
    /\ loaded' = [loaded EXCEPT ![r] = db]
    /\ videos' = [videos EXCEPT ![r] = like_scan(db, id)]
    /\ pc' = [pc EXCEPT ![r] = "scanned"]
    /\ UNCHANGED <<db, start, resp, lastWriter, view>>

\* GET /api/v1/video/<id>/dislike, up to the write: json.load and the scan
\* (no sleep here, but another thread can still run between the load and the write)
dislike_load(r, id) ==
    /\ arrives(r)
    /\ op' = [op EXCEPT ![r] = [kind |-> "dislike", id |-> id]]
    /\ loaded' = [loaded EXCEPT ![r] = db]
    /\ videos' = [videos EXCEPT ![r] = dislike_scan(db, id)]
    /\ pc' = [pc EXCEPT ![r] = "scanned"]
    /\ UNCHANGED <<db, start, resp, lastWriter, view>>

\* a write that applies the vote to the file as it is now, not to the loaded list
dump_on_current(r) ==
    /\ pc[r] = "scanned"
    /\ db' = IF op[r].kind = "like" THEN like_scan(db, op[r].id)
             ELSE dislike_scan(db, op[r].id)
    /\ lastWriter' = r
    /\ resp' = [resp EXCEPT ![r] = [body |-> "OK", status |-> 200]]
    /\ pc' = [pc EXCEPT ![r] = "done"]
    /\ UNCHANGED <<start, op, loaded, videos, view>>

\* a write that replaces only the records of the voted id
dump_voted_only(r) ==
    /\ pc[r] = "scanned"
    /\ db' = [k \in 1..Len(db) |-> IF db[k].id = op[r].id THEN videos[r][k] ELSE db[k]]
    /\ lastWriter' = r
    /\ resp' = [resp EXCEPT ![r] = [body |-> "OK", status |-> 200]]
    /\ pc' = [pc EXCEPT ![r] = "done"]
    /\ UNCHANGED <<start, op, loaded, videos, view>>

\* the rest of like and of dislike: json.dump(videos), then return ("OK", 200)
dump(r) ==
    /\ pc[r] = "scanned"
    /\ db' = videos[r]
    /\ lastWriter' = r
    /\ resp' = [resp EXCEPT ![r] = [body |-> "OK", status |-> 200]]
    /\ pc' = [pc EXCEPT ![r] = "done"]
    /\ UNCHANGED <<start, op, loaded, videos, view>>

---------------------------------------------------------------------------
(* Specifications *)

InitRequests ==
    /\ start = db
    /\ pc = [r \in Requests |-> "ready"]
    /\ op = [r \in Requests |-> NoOp]
    /\ loaded = [r \in Requests |-> <<>>]
    /\ videos = [r \in Requests |-> <<>>]
    /\ resp = [r \in Requests |-> NoResp]
    /\ lastWriter = 0
    /\ view = NoView

\* like and dislike requests served concurrently
Init ==
    /\ db \in FreshDbs
    /\ InitRequests

Next ==
    \/ \E r \in Requests, id \in RequestIds : like_load(r, id)
    \/ \E r \in Requests, id \in RequestIds : dislike_load(r, id)
    \/ \E r \in Requests : dump(r)

Spec == Init /\ [][Next]_vars

\* like and dislike requests served one after another
quiet == \A r \in Requests : pc[r] # "scanned"

NextSeq ==
    \/ \E r \in Requests, id \in RequestIds : quiet /\ like_load(r, id)
    \/ \E r \in Requests, id \in RequestIds : quiet /\ dislike_load(r, id)
    \/ \E r \in Requests : dump(r)

InitSeq ==
    /\ db \in VotedDbs
    /\ InitRequests

SpecSeq == InitSeq /\ [][NextSeq]_vars

\* the read-only endpoints
InitRead ==
    /\ db \in TitleDbs \cup ScoreDbs \cup {CatsDb, RankDb}
    /\ InitRequests

NextRead ==
    \/ \E f \in Filters \cup {CatFilter} : get_videos(f)
    \/ \E id \in RequestIds \cup {"A", "B", "C"} : get_video_details(id)
    \/ index_view

SpecRead == InitRead /\ [][NextRead]_vars

---------------------------------------------------------------------------
(* Properties *)

\* the positions of the records of vs whose id is id
Holders(vs, id) == {k \in 1..Len(vs) : vs[k].id = id}

\* request r has loaded the collection for a vote of this kind
Voted(r, kind) == pc[r] \in {"scanned", "done"} /\ op[r].kind = kind

\* request r ran this vote to its end
Finished(r, kind) == pc[r] = "done" /\ op[r].kind = kind

\* C1: when two Like(id) calls on an id the collection holds have loaded the same
\* collection and both have written, the second write being the last one, every
\* record with that id has likes just 1 above the loaded value, not 2.
C1_LostUpdate ==
    \A p, q \in Requests :
        ( /\ p # q
          /\ Finished(p, "like") /\ Finished(q, "like")
          /\ op[p].id = op[q].id
          /\ Holders(loaded[p], op[p].id) # {}
          /\ loaded[p] = loaded[q]
          /\ lastWriter = p )
        => /\ Len(db) = Len(loaded[p])
           /\ \A k \in Holders(db, op[p].id) : db[k].likes = loaded[p][k].likes + 1

\* C1 witness: two finished Like calls on the same stored id that loaded the starting
\* collection both, and the file shows +1.
C1_Witness ==
    \E p, q \in Requests :
        /\ p # q
        /\ Finished(p, "like") /\ Finished(q, "like")
        /\ op[p].id = op[q].id
        /\ loaded[p] = start /\ loaded[q] = start
        /\ lastWriter = p
        /\ \E k \in Holders(db, op[p].id) : db[k].likes = start[k].likes + 1

\* the number of finished calls of this kind on this id
Calls(kind, id) == Cardinality({r \in Requests : Finished(r, kind) /\ op[r].id = id})

\* C2: served one after another, a Like(id) on an id present once leaves the file with
\* that record's likes 1 above what it loaded and its dislikes as loaded, and after N
\* finished Like(id) calls the record's likes is N above its starting value.
C2_SequentialLikes ==
    /\ Len(db) = Len(start)
    /\ \A r \in Requests :
          (Finished(r, "like") /\ lastWriter = r) =>
              \A k \in Holders(loaded[r], op[r].id) :
                  Cardinality(Holders(loaded[r], op[r].id)) = 1 =>
                      /\ db[k].likes = loaded[r][k].likes + 1
                      /\ db[k].dislikes = loaded[r][k].dislikes
    /\ quiet =>
          \A k \in 1..Len(db) :
              Cardinality(Holders(db, db[k].id)) = 1 =>
                  db[k].likes = start[k].likes + Calls("like", db[k].id)

\* C2 witness: two Like calls on an id present once have finished, likes is 2 higher.
C2_Witness ==
    /\ quiet
    /\ \E k \in 1..Len(db) :
          /\ Cardinality(Holders(db, db[k].id)) = 1
          /\ Calls("like", db[k].id) = 2
          /\ db[k].likes = start[k].likes + 2

\* C3: every collection that was persisted earlier (the starting one, and the one each
\* finished request wrote) has, record by record, counters that are non-negative and
\* at most those of the collection persisted now.
C3_NeverDecreases ==
    /\ \A k \in 1..Len(db) : db[k].likes >= 0 /\ db[k].dislikes >= 0
    /\ \A r \in Requests :
          pc[r] = "done" =>
              \A k \in 1..Len(db) :
                  /\ db[k].likes >= videos[r][k].likes
                  /\ db[k].dislikes >= videos[r][k].dislikes

\* C4: served one after another, a Dislike(id) on an id present once leaves the file
\* with that record's dislikes 1 above what it loaded and its likes as loaded.
C4_SequentialDislike ==
    \A r \in Requests :
        (Finished(r, "dislike") /\ lastWriter = r) =>
            /\ Len(db) = Len(loaded[r])
            /\ \A k \in Holders(loaded[r], op[r].id) :
                  Cardinality(Holders(loaded[r], op[r].id)) = 1 =>
                      /\ db[k].dislikes = loaded[r][k].dislikes + 1
                      /\ db[k].likes = loaded[r][k].likes

\* C4 witness: a Dislike on an id present once has just been written.
C4_Witness ==
    \E r \in Requests :
        /\ Finished(r, "dislike") /\ lastWriter = r
        /\ Cardinality(Holders(loaded[r], op[r].id)) = 1
        /\ \E k \in Holders(db, op[r].id) : db[k].dislikes = loaded[r][k].dislikes + 1

\* C5: Get(id) answers with one record of the collection whose id is the requested id
\* when some record has that id, raises when none has, and leaves the file as it was.
C5_GetFoundOrRaises ==
    /\ db = start
    /\ view.route = "get" =>
          IF Holders(db, view.id) # {}
          THEN /\ ~view.raised
               /\ Len(view.body) = 1
               /\ view.body[1].id = view.id
               /\ \E k \in 1..Len(db) : db[k] = view.body[1]
          ELSE /\ view.raised
               /\ view.body = <<>>

\* C5 witness: Get on a collection that holds records, none of them with the id.
C5_Witness ==
    /\ view.route = "get"
    /\ Len(db) > 0
    /\ Holders(db, view.id) = {}
    /\ view.raised

\* a letter and the same letter in the other case
CasePairs == { {"a", "A"}, {"b", "B"}, {"c", "C"}, {"t", "T"} }
SameLetter(x, y) == x = y \/ {x, y} \in CasePairs

\* title holds f as a substring, case ignored
TitleHas(title, f) ==
    \E o \in 0..(Len(title) - Len(f)) :
        \A j \in 1..Len(f) : SameLetter(title[o + j], f[j])

\* the positions of the records whose title holds f
Matching(vs, f) == {k \in 1..Len(vs) : TitleHas(vs[k].title, f)}

\* the i-th smallest member of the set of positions M
Nth(M, i) == CHOOSE k \in M : Cardinality({j \in M : j <= k}) = i

\* C6: List(f) answers with one id per record whose title holds f case-insensitively,
\* in file order, and List("") with the id of every record in file order.
C6_ListMatches ==
    view.route = "list" =>
        LET M == Matching(db, view.filter)
        IN  /\ Len(view.ids) = Cardinality(M)
            /\ \A i \in 1..Len(view.ids) : view.ids[i] = db[Nth(M, i)].id
            /\ view.filter = <<>> =>
                  /\ Len(view.ids) = Len(db)
                  /\ \A i \in 1..Len(db) : view.ids[i] = db[i].id

\* C6 witness: title "Cats" is listed for filter "CAT", title "act" is not.
C6_Witness ==
    /\ view.route = "list"
    /\ db = CatsDb
    /\ view.filter = CatFilter
    /\ view.ids = <<"v1">>

\* the orders in which n records can be shown
Orders(n) == {f \in [1..n -> 1..n] : \A i, j \in 1..n : i # j => f[i] # f[j]}

\* body shows shown[f[1]], shown[f[2]], ... by score descending, equal scores in the
\* order of shown
Ranked(body, shown, f) ==
    /\ \A i \in 1..Len(body) : body[i] = shown[f[i]]
    /\ \A i, j \in 1..Len(body) :
          i < j =>
              \/ score(body[i]) > score(body[j])
              \/ score(body[i]) = score(body[j]) /\ f[i] < f[j]

\* C8 as stated: the index view shows every stored record, by score descending, equal
\* scores in file order, and leaves the file as it was.
C8_IndexShowsEveryRecord ==
    /\ db = start
    /\ view.route = "index" =>
          /\ Len(view.body) = Len(db)
          /\ \E f \in Orders(Len(db)) : Ranked(view.body, db, f)

\* the record Get answers with for the id of the record at position k
FirstWithId(vs, k) == vs[CHOOSE m \in Holders(vs, vs[k].id) :
                             \A n \in Holders(vs, vs[k].id) : m <= n]

\* C8 amended: the index view shows, for every stored record, the first stored record
\* with its id (the record itself when ids are unique), by score descending, equal
\* scores in file order, and leaves the file as it was.
C8_IndexRanksDetails ==
    /\ db = start
    /\ view.route = "index" =>
          /\ Len(view.body) = Len(db)
          /\ \E f \in Orders(Len(db)) :
                Ranked(view.body, [k \in 1..Len(db) |-> FirstWithId(db, k)], f)

\* C8 witness: A(5,1), B(3,0), C(5,5) are shown as A, B, C.
C8_Witness ==
    /\ view.route = "index"
    /\ db = RankDb
    /\ ids_of(view.body) = <<"A", "B", "C">>

\* C7: a Like or Dislike on an id no record has leaves its local collection equal to
\* the loaded one, writes that collection back, and answers ("OK", 200).
C7_MissingIdIgnored ==
    \A r \in Requests :
        ( /\ pc[r] \in {"scanned", "done"}
          /\ Holders(loaded[r], op[r].id) = {} )
        => /\ videos[r] = loaded[r]
           /\ pc[r] = "done" => resp[r] = [body |-> "OK", status |-> 200]
           /\ (pc[r] = "done" /\ lastWriter = r) => db = loaded[r]

\* C7 witness: a vote on an id no record has was written back over a non-empty file.
C7_Witness ==
    \E r \in Requests :
        /\ pc[r] = "done"
        /\ lastWriter = r
        /\ Len(loaded[r]) > 0
        /\ Holders(loaded[r], op[r].id) = {}
        /\ resp[r].status = 200

\* the last position of a non-empty set of positions
Last(H) == CHOOSE m \in H : \A n \in H : n <= m

\* C9 as stated: with several records of the id, Like(id) raises the likes of the last
\* of them only, every earlier one is as loaded.
C9_OnlyLastSticks ==
    \A r \in Requests :
        LET H == Holders(loaded[r], op[r].id)
        IN  (Voted(r, "like") /\ Cardinality(H) >= 2) =>
                /\ videos[r][Last(H)].likes = loaded[r][Last(H)].likes + 1
                /\ \A k \in H \ {Last(H)} : videos[r][k] = loaded[r][k]

\* C9 amended: with several records of the id, Like(id) visits the whole collection
\* and raises the likes of every record with that id by 1; nothing else changes.
C9_EveryMatchRaised ==
    \A r \in Requests :
        LET H == Holders(loaded[r], op[r].id)
        IN  (Voted(r, "like") /\ Cardinality(H) >= 2) =>
                /\ Len(videos[r]) = Len(loaded[r])
                /\ \A k \in H : videos[r][k] = [loaded[r][k] EXCEPT !.likes = @ + 1]
                /\ \A k \in (1..Len(loaded[r])) \ H : videos[r][k] = loaded[r][k]

\* C9 witness: a Like on an id two records have was written, both have likes raised.
C9_Witness ==
    \E r \in Requests :
        /\ Finished(r, "like") /\ lastWriter = r
        /\ Cardinality(Holders(loaded[r], op[r].id)) >= 2
        /\ \A k \in Holders(loaded[r], op[r].id) : db[k].likes = loaded[r][k].likes + 1

\* C10: when Like(x) and a vote on another stored id y have loaded the same collection,
\* the vote on y has written and Like(x) writes last, the file holds x's increment and
\* the records of y are as they were loaded: the vote on y is gone.
C10_VoteOnOtherErased ==
    \A p, q \in Requests :
        ( /\ p # q
          /\ Finished(p, "like")
          /\ pc[q] = "done"
          /\ op[q].id # op[p].id
          /\ Holders(loaded[p], op[p].id) # {}
          /\ Holders(loaded[q], op[q].id) # {}
          /\ loaded[p] = loaded[q]
          /\ lastWriter = p )
        => /\ \A k \in Holders(db, op[p].id) : db[k].likes = loaded[p][k].likes + 1
           /\ \A k \in Holders(db, op[q].id) :
                 /\ db[k] = loaded[q][k]
                 /\ db[k] # videos[q][k]

\* C10 witness: Like(x) wrote last over a finished vote on y, both loaded the start.
C10_Witness ==
    \E p, q \in Requests :
        /\ p # q
        /\ Finished(p, "like")
        /\ pc[q] = "done"
        /\ op[q].id # op[p].id
        /\ Holders(start, op[p].id) # {}
        /\ Holders(start, op[q].id) # {}
        /\ loaded[p] = start /\ loaded[q] = start
        /\ lastWriter = p
        /\ \E k \in Holders(db, op[q].id) : db[k] = start[k]

====
